---- MODULE Spec2Model ----
(***************************************************************************)
(* Model of the allocating minifigure finder of minifig-builder            *)
(* (src/src/find_minifigs_api.py): InventoryParser.has_part,               *)
(* MinifigureFinder.check_minifig, calculate_profit, calculate_parts_cost, *)
(* the two allocation phases of MinifigureFinder.search_minifigs, and      *)
(* InventoryParser.load.                                                   *)
(*                                                                         *)
(* Python's None is the empty sequence and a present value x is <<x>>.     *)
(* Prices are integers (the source uses floats; only sums, differences and *)
(* comparisons are taken).  A PartRef (part_id, color_id) is one key.      *)
(***************************************************************************)
EXTENDS Integers, Sequences, FiniteSets, TLC

\* ---------------------------------------------------------------- bounds
MaxQty == 2
MaxPrice == 1
MaxYear == 1
MaxLines == 2
MaxMarket == 3
MaxItems == 2
MaxCalls == 2
MaxLots == 2

\* ------------------------------------------------------- value universes
None == <<>>
Some(x) == <<x>>
Parts == {"p1", "p2"}
\* a recipe line asks for one or two units (two arms, two hands, two legs)
Needs == {1, 2}
\* the ids get_cached_minifig_ids finds in the cache, in file order
cached_minifig_ids == <<"mfA", "mfB">>
Ids == {cached_minifig_ids[i] : i \in 1..Len(cached_minifig_ids)}
\* the CachedBrickLinkAPI instances that may exist side by side
Apis == {"api1", "api2"}
ReservedRemark == "Parts reserved for higher-priority minifigures"
StockRemark == "bin"
OtherRemark == "box"

Min(a, b) == IF a <= b THEN a ELSE b
Max(a, b) == IF a >= b THEN a ELSE b

\* Python's a // b for b # 0 (floor of the quotient, any signs)
FloorDiv(a, b) == IF b > 0 THEN a \div b ELSE (0 - a) \div (0 - b)

RECURSIVE SeqsUpTo(_, _)
SeqsUpTo(S, n) ==
    IF n = 0 THEN {<<>>}
    ELSE LET shorter == SeqsUpTo(S, n - 1)
         IN  shorter \cup {Append(s, x) : s \in {t \in shorter : Len(t) = n - 1}, x \in S}

RECURSIVE SumSeq(_)
SumSeq(s) == IF s = <<>> THEN 0 ELSE Head(s) + SumSeq(Tail(s))

RECURSIVE MinSeq(_)
MinSeq(s) == IF Len(s) = 1 THEN s[1] ELSE Min(Head(s), MinSeq(Tail(s)))

RECURSIVE Flatten(_)
Flatten(ss) == IF ss = <<>> THEN <<>> ELSE Head(ss) \o Flatten(Tail(ss))

\* ----------------------------------------------------- InventoryParser.load
\* faulty variant: a later remark replaces the stored one
KeepRemarks_Last(stored, remarks) == IF remarks # "" THEN remarks ELSE stored

\* if not self.inventory[key].remarks and remarks: ... = remarks
KeepRemarks(stored, remarks) == IF stored = "" /\ remarks # "" THEN remarks ELSE stored

\* one iteration of "for item in root.findall('ITEM')"
load_item(inv, item) ==
    IF item.item_type \in {"P", "M"}
    THEN LET key == item.item_id
         IN  IF inv[key] # None
             THEN [inv EXCEPT ![key] =
                      Some([quantity |-> inv[key][1].quantity + item.qty,
                            price    |-> inv[key][1].price,
                            remarks  |-> KeepRemarks(inv[key][1].remarks, item.remarks)])]
             ELSE [inv EXCEPT ![key] =
                      Some([quantity |-> item.qty, price |-> item.price,
                            remarks |-> item.remarks])]
    ELSE inv

RECURSIVE load_items(_, _)
load_items(inv, items) ==
    IF items = <<>> THEN inv ELSE load_items(load_item(inv, Head(items)), Tail(items))

\* ------------------------------------------------- InventoryParser.has_part
\* faulty variant: a PartRef the inventory does not hold counts as in stock
has_part_MissMatches(inv, part_id, quantity) ==
    IF inv[part_id] # None
    THEN LET inv_part == inv[part_id][1]
         IN  [has_enough |-> inv_part.quantity >= quantity,
              available  |-> inv_part.quantity,
              remarks    |-> inv_part.remarks,
              price      |-> inv_part.price]
    ELSE [has_enough |-> TRUE, available |-> quantity, remarks |-> "", price |-> 0]

has_part(inv, part_id, quantity) ==
    IF inv[part_id] # None
    THEN LET inv_part == inv[part_id][1]
         IN  [has_enough |-> inv_part.quantity >= quantity,
              available  |-> inv_part.quantity,
              remarks    |-> inv_part.remarks,
              price      |-> inv_part.price]
    ELSE [has_enough |-> FALSE, available |-> 0, remarks |-> "", price |-> 0]

\* --------------------------------------------------------- the Scorer
Truthy(opt) == opt # None /\ opt[1] # 0

calculate_parts_cost(match) ==
    IF match.matched_details = <<>> THEN 0
    ELSE SumSeq([i \in 1..Len(match.matched_details) |-> match.matched_details[i].total_price])

\* faulty variant: a market price that is not there counts as 0
calculate_profit_NoGuard(match) ==
    IF match.matched_details = <<>> \/ match.price_data = None THEN 0
    ELSE LET parts_cost == SumSeq([i \in 1..Len(match.matched_details) |->
                                      match.matched_details[i].total_price])
             price_info == match.price_data[1].data
         IN  IF price_info = None THEN 0 - parts_cost
             ELSE LET ordered_used == price_info[1].ordered_used
                      ordered_new  == price_info[1].ordered_new
                      market_price == IF Truthy(ordered_used) THEN ordered_used ELSE ordered_new
                  IN  IF market_price = None THEN 0 - parts_cost
                      ELSE market_price[1] - parts_cost

calculate_profit(match) ==
    IF match.matched_details = <<>> \/ match.price_data = None THEN 0
    ELSE LET parts_cost == SumSeq([i \in 1..Len(match.matched_details) |->
                                      match.matched_details[i].total_price])
             price_info == match.price_data[1].data
         IN  IF price_info = None THEN 0
             ELSE LET ordered_used == price_info[1].ordered_used
                      ordered_new  == price_info[1].ordered_new
                      market_price == IF Truthy(ordered_used) THEN ordered_used ELSE ordered_new
                  IN  IF market_price = None THEN 0 ELSE market_price[1] - parts_cost

\* ------------------------------------------- MinifigureFinder.check_minifig
\* faulty variant: the counterpart flag is not looked at
IsRegular_AlternateOnly(p) == ~p.is_alternate

IsRegular(p) == ~p.is_alternate /\ ~p.is_counterpart

MatchedDetail(inv, part) ==
    LET hp == has_part(inv, part.part_id, part.quantity)
    IN  [part_id |-> part.part_id, quantity |-> part.quantity, price |-> hp.price,
         total_price |-> hp.price * part.quantity, remarks |-> hp.remarks]

\* faulty variant: the shortfall is the whole quantity needed
MissingDetail_NoStock(inv, part) ==
    LET hp == has_part(inv, part.part_id, part.quantity)
    IN  [part_id |-> part.part_id, needed |-> part.quantity, available |-> hp.available,
         short_by |-> part.quantity, price |-> hp.price,
         remarks |-> IF hp.available > 0 THEN hp.remarks ELSE ""]

MissingDetail(inv, part) ==
    LET hp == has_part(inv, part.part_id, part.quantity)
    IN  [part_id |-> part.part_id, needed |-> part.quantity, available |-> hp.available,
         short_by |-> part.quantity - hp.available, price |-> hp.price,
         remarks |-> IF hp.available > 0 THEN hp.remarks ELSE ""]

\* matched * 100 / total; the floor keeps order and equality of the quotients
\* for every total_parts below 10
MatchPct(matched, total) == IF total > 0 THEN (matched * 100) \div total ELSE 0

check_minifig(inv, mcache, pcache, minifig_id) ==
    IF mcache[minifig_id] = None THEN None
    ELSE
      LET data          == mcache[minifig_id][1]
          price_info    == pcache[minifig_id]
          regular_parts == SelectSeq(data.parts, IsRegular)
          HasEnough(p)  == has_part(inv, p.part_id, p.quantity).has_enough
          Lacks(p)      == ~HasEnough(p)
          Positive(p)   == p.quantity > 0
          matchedSeq    == SelectSeq(regular_parts, HasEnough)
          missingSeq    == SelectSeq(regular_parts, Lacks)
          limited       == SelectSeq(regular_parts, Positive)
          build_limits  == [i \in 1..Len(limited) |->
                               FloorDiv(has_part(inv, limited[i].part_id, limited[i].quantity).available,
                                        limited[i].quantity)]
          total         == Len(regular_parts)
          matched       == Len(matchedSeq)
      IN  IF regular_parts = <<>> THEN None
          ELSE Some([minifig_id       |-> minifig_id,
                     year_released    |-> data.year_released,
                     total_parts      |-> total,
                     matched_parts    |-> matched,
                     missing_parts    |-> total - matched,
                     match_percentage |-> MatchPct(matched, total),
                     can_build        |-> matched = total,
                     buildable_count  |-> IF build_limits # <<>> THEN MinSeq(build_limits) ELSE 0,
                     missing_details  |-> [i \in 1..Len(missingSeq) |-> MissingDetail(inv, missingSeq[i])],
                     matched_details  |-> [i \in 1..Len(matchedSeq) |-> MatchedDetail(inv, matchedSeq[i])],
                     price_data       |-> price_info,
                     profit           |-> 0])

\* ------------------------------------------------ list.sort(key, reverse=True)
KeyLess(a, b) ==
    \/ a[1] < b[1]
    \/ a[1] = b[1] /\ a[2] < b[2]
    \/ a[1] = b[1] /\ a[2] = b[2] /\ a[3] < b[3]

YearKey(m) == IF m.year_released = None THEN 0 ELSE m.year_released[1]
CompleteKey(m) == <<m.match_percentage, m.profit, YearKey(m)>>
PartialKey(m) == <<m.match_percentage, calculate_parts_cost(m), YearKey(m)>>

\* stable: x goes after every element whose key is not below the key of x
RECURSIVE InsertDesc(_, _)
InsertDesc(sorted, x) ==
    IF sorted = <<>> THEN <<x>>
    ELSE IF KeyLess(Head(sorted).key, x.key) THEN <<x>> \o sorted
         ELSE <<Head(sorted)>> \o InsertDesc(Tail(sorted), x)

RECURSIVE SortDesc(_, _)
SortDesc(done, rest) ==
    IF rest = <<>> THEN done ELSE SortDesc(InsertDesc(done, Head(rest)), Tail(rest))

\* faulty variant: the complete matches keep their enumeration order
SortComplete_Unsorted(ms) == ms

SortComplete(ms) ==
    LET keyed == SortDesc(<<>>, [i \in 1..Len(ms) |-> [key |-> CompleteKey(ms[i]), item |-> ms[i]]])
    IN  [i \in 1..Len(keyed) |-> keyed[i].item]

\* faulty variant: an ascending stable sort read backwards, which turns
\* every run of equal keys around
SortPartial_TiesReversed(ms) ==
    LET rev   == [i \in 1..Len(ms) |-> ms[Len(ms) + 1 - i]]
        keyed == SortDesc(<<>>, [i \in 1..Len(rev) |-> [key |-> PartialKey(rev[i]), item |-> rev[i]]])
    IN  [i \in 1..Len(keyed) |-> keyed[i].item]

SortPartial(ms) ==
    LET keyed == SortDesc(<<>>, [i \in 1..Len(ms) |-> [key |-> PartialKey(ms[i]), item |-> ms[i]]])
    IN  [i \in 1..Len(keyed) |-> keyed[i].item]

\* ------------------------------------- the backend finder (no allocation)
\* faulty variant: a part counts as in stock only with a unit to spare
backend_has_part_Spare(inv, part_id, quantity) ==
    IF inv[part_id] # None
    THEN LET inv_part == inv[part_id][1]
         IN  [has_enough |-> inv_part.quantity > quantity,
              available  |-> inv_part.quantity,
              remarks    |-> inv_part.remarks,
              price      |-> inv_part.price]
    ELSE [has_enough |-> FALSE, available |-> 0, remarks |-> "", price |-> 0]

\* core.inventory_parser.InventoryParser.has_part
backend_has_part(inv, part_id, quantity) ==
    IF inv[part_id] # None
    THEN LET inv_part == inv[part_id][1]
         IN  [has_enough |-> inv_part.quantity >= quantity,
              available  |-> inv_part.quantity,
              remarks    |-> inv_part.remarks,
              price      |-> inv_part.price]
    ELSE [has_enough |-> FALSE, available |-> 0, remarks |-> "", price |-> 0]

\* core.minifig_finder.MinifigureFinder.check_minifig
backend_check_minifig(inv, mcache, pcache, minifig_id) ==
    IF mcache[minifig_id] = None THEN None
    ELSE
      LET data          == mcache[minifig_id][1]
          price_info    == pcache[minifig_id]
          regular_parts == SelectSeq(data.parts, LAMBDA p : ~p.is_alternate /\ ~p.is_counterpart)
          Has(p)        == backend_has_part(inv, p.part_id, p.quantity)
          matched_parts == SelectSeq(regular_parts, LAMBDA p : Has(p).has_enough)
          missing       == SelectSeq(regular_parts, LAMBDA p : ~Has(p).has_enough)
          total         == Len(regular_parts)
          matched       == Len(matched_parts)
      IN  IF regular_parts = <<>> THEN None
          ELSE Some([minifig_id       |-> minifig_id,
                     year_released    |-> data.year_released,
                     total_parts      |-> total,
                     matched_parts    |-> matched,
                     missing_parts    |-> total - matched,
                     match_percentage |-> IF total > 0 THEN (matched * 100) \div total ELSE 0,
                     can_build        |-> matched = total,
                     missing_details  |->
                        [i \in 1..Len(missing) |->
                            [part_id   |-> missing[i].part_id,
                             needed    |-> missing[i].quantity,
                             available |-> Has(missing[i]).available,
                             short_by  |-> missing[i].quantity - Has(missing[i]).available,
                             price     |-> Has(missing[i]).price,
                             remarks   |-> IF Has(missing[i]).available > 0
                                           THEN Has(missing[i]).remarks ELSE ""]],
                     matched_details  |->
                        [i \in 1..Len(matched_parts) |->
                            [part_id     |-> matched_parts[i].part_id,
                             quantity    |-> matched_parts[i].quantity,
                             price       |-> Has(matched_parts[i]).price,
                             total_price |-> Has(matched_parts[i]).price * matched_parts[i].quantity,
                             remarks     |-> Has(matched_parts[i]).remarks]],
                     price_data       |-> price_info])

\* core.minifig_finder.MinifigureFinder.search_minifigs: every candidate that
\* has a record, sorted on (match_percentage, year_released or 0), descending
backend_search_minifigs(inv, mcache, pcache, ids) ==
    LET matches == Flatten([i \in 1..Len(ids) |-> backend_check_minifig(inv, mcache, pcache, ids[i])])
        keyed   == SortDesc(<<>>, [i \in 1..Len(matches) |->
                                     [key  |-> <<matches[i].match_percentage,
                                                YearKey(matches[i]), 0>>,
                                      item |-> matches[i]]])
    IN  [i \in 1..Len(keyed) |-> keyed[i].item]

\* --------------------------------------------- CachedBrickLinkAPI (backend)
\* what the remote side answers for a minifigure: its catalog entry
RemoteMinifig(minifig_id) ==
    [year_released |-> None,
     parts |-> <<[part_id |-> IF minifig_id = cached_minifig_ids[1] THEN "p1" ELSE "p2",
                  quantity |-> 1, is_alternate |-> FALSE, is_counterpart |-> FALSE]>>]

\* what the price page answers when it lists prices
RemoteGuide == [ordered_used |-> Some(MaxMarket), ordered_new |-> None]

\* the three ways a price fetch can go: a page with prices, a page with too
\* few of them, a request that raises
PriceOutcomes == {"guide", "short", "raises"}

\* BrickLinkAPI.get_price_guide: the parsed page, or {} (modelled as None)
\* for a short page and for any exception
get_price_guide(outcome) ==
    IF outcome = "guide" THEN Some(RemoteGuide) ELSE None

\* CachedBrickLinkAPI.__init__: both in-memory caches are read from the files
CachedBrickLinkAPI(files) ==
    [minifig_cache |-> files.minifig_cache_file, price_cache |-> files.price_cache_file]

\* get_cached_minifig_ids: the sorted keys of the minifig cache file
get_cached_minifig_ids(files) ==
    SelectSeq(cached_minifig_ids, LAMBDA id : files.minifig_cache_file[id] # None)

\* faulty variant: the cached entry is not looked up; every call outside
\* cache-only mode fetches and stores again
get_minifig_with_cache_NoHit(self, files, minifig_id, use_cache_only, fetch_ok) ==
    IF use_cache_only
    THEN [self |-> self, files |-> files, fetch |-> "none", result |-> self.minifig_cache[minifig_id]]
    ELSE IF fetch_ok
    THEN LET minifig_cache == [self.minifig_cache EXCEPT ![minifig_id] = Some(RemoteMinifig(minifig_id))]
         IN  [self   |-> [self EXCEPT !.minifig_cache = minifig_cache],
              files  |-> [files EXCEPT !.minifig_cache_file = minifig_cache],
              fetch  |-> "ok",
              result |-> minifig_cache[minifig_id]]
    ELSE [self |-> self, files |-> files, fetch |-> "failed", result |-> None]

\* CachedBrickLinkAPI.get_minifig_with_cache: the instance and the files after
\* the call, whether it fetched, and what it returns. get_item raises when
\* the request fails (fetch_ok false)
get_minifig_with_cache(self, files, minifig_id, use_cache_only, fetch_ok) ==
    IF self.minifig_cache[minifig_id] # None
    THEN [self |-> self, files |-> files, fetch |-> "none", result |-> self.minifig_cache[minifig_id]]
    ELSE IF use_cache_only
    THEN [self |-> self, files |-> files, fetch |-> "none", result |-> None]
    ELSE IF fetch_ok
    THEN LET minifig_cache == [self.minifig_cache EXCEPT ![minifig_id] = Some(RemoteMinifig(minifig_id))]
         IN  [self   |-> [self EXCEPT !.minifig_cache = minifig_cache],
              files  |-> [files EXCEPT !.minifig_cache_file = minifig_cache],
              fetch  |-> "ok",
              result |-> minifig_cache[minifig_id]]
    ELSE [self |-> self, files |-> files, fetch |-> "failed", result |-> None]

\* CachedBrickLinkAPI.get_price_with_cache; now is the time of the call.
\* get_price_guide never raises, so the except branch is not reached
get_price_with_cache(self, files, minifig_id, use_cache_only, outcome, now) ==
    IF self.price_cache[minifig_id] # None
    THEN [self |-> self, files |-> files, fetch |-> "none", result |-> self.price_cache[minifig_id]]
    ELSE IF use_cache_only
    THEN [self |-> self, files |-> files, fetch |-> "none", result |-> None]
    ELSE LET price_data  == get_price_guide(outcome)
             price_cache == [self.price_cache EXCEPT
                               ![minifig_id] = Some([data |-> price_data, updated |-> now])]
         IN  [self   |-> [self EXCEPT !.price_cache = price_cache],
              files  |-> [files EXCEPT !.price_cache_file = price_cache],
              fetch  |-> IF outcome = "raises" THEN "failed" ELSE "ok",
              result |-> price_cache[minifig_id]]

\* ------------------------------------------------- the backend web service
\* match_to_dict, cut down to the fields of the record that count
match_to_dict(m) ==
    [minifig_id |-> m.minifig_id, total_parts |-> m.total_parts,
     matched_parts |-> m.matched_parts, missing_parts |-> m.missing_parts,
     can_build |-> m.can_build]

\* faulty variant: the handler clears the stored results before it starts
analyze_inventory_body_Clears(latest, files, upload, fault) ==
    LET api         == CachedBrickLinkAPI(files)
        minifig_ids == get_cached_minifig_ids(files)
        matches     == backend_search_minifigs(load_items([p \in Parts |-> None], upload.items[1]),
                                               api.minifig_cache, api.price_cache, minifig_ids)
        complete    == SelectSeq(matches, LAMBDA m : m.can_build)
        incomplete  == SelectSeq(matches, LAMBDA m : ~m.can_build)
        results     == [summary    |-> [total_checked      |-> Len(matches),
                                        complete_matches   |-> Len(complete),
                                        incomplete_matches |-> Len(incomplete)],
                        complete   |-> [i \in 1..Len(complete) |-> match_to_dict(complete[i])],
                        incomplete |-> [i \in 1..Len(incomplete) |-> match_to_dict(incomplete[i])]]
    IN  IF fault = "write"
        THEN [status |-> 500, body |-> None, latest_results |-> None]
        ELSE IF upload.items = None \/ minifig_ids = <<>>
        THEN [status |-> 400, body |-> None, latest_results |-> None]
        ELSE IF fault = "search"
        THEN [status |-> 500, body |-> None, latest_results |-> None]
        ELSE [status |-> 200, body |-> Some(results), latest_results |-> Some(results)]

\* analyze_inventory after the upload has been read: the response and the
\* value of latest_results when the handler ends. upload.items is None for a
\* file the parser rejects; fault names an exception raised before the
\* assignment: while the temporary file is written, or in the search and
\* the building of the response
analyze_inventory_body(latest, files, upload, fault) ==
    LET api         == CachedBrickLinkAPI(files)
        minifig_ids == get_cached_minifig_ids(files)
        matches     == backend_search_minifigs(load_items([p \in Parts |-> None], upload.items[1]),
                                               api.minifig_cache, api.price_cache, minifig_ids)
        complete    == SelectSeq(matches, LAMBDA m : m.can_build)
        incomplete  == SelectSeq(matches, LAMBDA m : ~m.can_build)
        results     == [summary    |-> [total_checked      |-> Len(matches),
                                        complete_matches   |-> Len(complete),
                                        incomplete_matches |-> Len(incomplete)],
                        complete   |-> [i \in 1..Len(complete) |-> match_to_dict(complete[i])],
                        incomplete |-> [i \in 1..Len(incomplete) |-> match_to_dict(incomplete[i])]]
    IN  IF fault = "write"
        THEN [status |-> 500, body |-> None, latest_results |-> latest]
        ELSE IF upload.items = None \/ minifig_ids = <<>>
        THEN [status |-> 400, body |-> None, latest_results |-> latest]
        ELSE IF fault = "search"
        THEN [status |-> 500, body |-> None, latest_results |-> latest]
        ELSE [status |-> 200, body |-> Some(results), latest_results |-> Some(results)]

\* ------------------------------------------------- the legacy MinifigBuilder
\* a Part: name is the set of the keywords its lower-case name contains
\* ("headgear" never without "head", which it contains)
Part(id, qty, type, name) ==
    [item_id |-> id, color_id |-> 0, qty |-> qty, item_type |-> type, name |-> name]

PartKey(part) == <<part.item_id, part.color_id>>

\* MinifigBuilder.categorize_parts: the first branch of the elif chain that
\* takes the part, for parts of item type P only
CategoryOf(part) ==
    IF part.item_type # "P" THEN "skipped"
    ELSE IF "head" \in part.name /\ "headgear" \notin part.name /\ "hair" \notin part.name
    THEN "head"
    ELSE IF part.name \cap {"hair", "hat", "helmet", "headgear"} # {} THEN "headgear"
    ELSE IF "torso" \in part.name THEN "torso"
    ELSE IF part.name \cap {"legs", "hips"} # {} THEN "legs"
    ELSE IF part.name \cap {"accessory", "weapon", "tool"} # {} THEN "accessories"
    ELSE "other"

categorize_parts(parts) ==
    [c \in {"head", "headgear", "torso", "legs", "accessories", "other"} |->
        SelectSeq(parts, LAMBDA part : CategoryOf(part) = c)]

\* list.count
Count(used, key) == Cardinality({i \in 1..Len(used) : used[i] = key})

\* faulty variant: one unit too many of every lot
HasUnitLeft_OneMore(used, part) == Count(used, PartKey(part)) <= part.qty

\* "x_used < x.qty": the lot has a unit that no minifigure uses yet
HasUnitLeft(used, part) == Count(used, PartKey(part)) < part.qty

\* MinifigBuilder._calculate_value, in tenths; value_data maps an item_id to
\* None or <<value>>
ValueOr(value_data, part, default) ==
    IF value_data[part.item_id] = None THEN default ELSE value_data[part.item_id][1]

calculate_value(value_data, minifig) ==
    ValueOr(value_data, minifig.head[1], 5)
        + (IF minifig.headgear = None THEN 0 ELSE ValueOr(value_data, minifig.headgear[1], 3))
        + ValueOr(value_data, minifig.torso[1], 10)
        + ValueOr(value_data, minifig.legs[1], 8)

\* one pass of the innermost loop body of build_minifigures, for the triple
\* (head, torso, legs); st holds the list built so far and the four used lists
BuildOne(value_data, categorized, st, head, torso, legs) ==
    IF HasUnitLeft(st.used_heads, head) /\ HasUnitLeft(st.used_torsos, torso)
          /\ HasUnitLeft(st.used_legs, legs)
    THEN LET free     == SelectSeq(categorized["headgear"],
                                   LAMBDA g : HasUnitLeft(st.used_headgear, g))
             headgear == IF free = <<>> THEN None ELSE Some(Head(free))
             minifig  == [head |-> Some(head), headgear |-> headgear, torso |-> Some(torso),
                          legs |-> Some(legs), value |-> 0]
         IN  [minifigures   |-> Append(st.minifigures,
                                       [minifig EXCEPT !.value = calculate_value(value_data, minifig)]),
              used_heads    |-> Append(st.used_heads, PartKey(head)),
              used_torsos   |-> Append(st.used_torsos, PartKey(torso)),
              used_legs     |-> Append(st.used_legs, PartKey(legs)),
              used_headgear |-> IF headgear = None THEN st.used_headgear
                                ELSE Append(st.used_headgear, PartKey(headgear[1]))]
    ELSE st

\* the three nested loops, flattened: iteration n of Len(head) * Len(torso) *
\* Len(legs), the legs index running fastest
RECURSIVE BuildLoop(_, _, _, _)
BuildLoop(value_data, categorized, st, n) ==
    LET T == Len(categorized["torso"])
        L == Len(categorized["legs"])
    IN  IF n > Len(categorized["head"]) * T * L THEN st
        ELSE BuildLoop(value_data, categorized,
                       BuildOne(value_data, categorized, st,
                                categorized["head"][((n - 1) \div (T * L)) + 1],
                                categorized["torso"][(((n - 1) \div L) % T) + 1],
                                categorized["legs"][((n - 1) % L) + 1]),
                       n + 1)

\* MinifigBuilder.build_minifigures: the loops, then the stable sort on value,
\* highest first
build_minifigures(value_data, parts) ==
    LET built == BuildLoop(value_data, categorize_parts(parts),
                           [minifigures |-> <<>>, used_heads |-> <<>>, used_torsos |-> <<>>,
                            used_legs |-> <<>>, used_headgear |-> <<>>], 1).minifigures
        keyed == SortDesc(<<>>, [i \in 1..Len(built) |->
                                   [key |-> <<built[i].value, 0, 0>>, item |-> built[i]]])
    IN  [i \in 1..Len(keyed) |-> keyed[i].item]

\* ------------------------------------------------------------ variables
VARIABLES
    xml_items,        \* the ITEM elements of the inventory file, in document order
    inventory,        \* InventoryParser.inventory: PartRef -> None | <<InventoryPart>>
    minifig_ids,      \* the list search_minifigs is called with
    minifig_cache,    \* api.minifig_cache: minifig_id -> None | <<[year_released, parts]>>
    price_cache,      \* api.price_cache: minifig_id -> None | <<price record>>
    pc,               \* position: load, idle, phase1, phase2, done, error
    complete_matches, \* sorted can_build candidates
    partial_matches,  \* sorted candidates with matched_parts > 0
    idx,              \* index of the next candidate of the running phase
    allocated_parts,  \* the ledger: PartRef -> units committed
    final_results,    \* the output list being built
    first_results     \* None, or <<output of the previous finished run>>

VARIABLES
    backend_matches   \* None, or <<the list the backend finder returned>>

VARIABLES
    cache_files,      \* the two cache files: minifig_id -> None | <<entry>>
    apis,             \* CachedBrickLinkAPI instances: None | <<in-memory caches>>
    remote_calls,     \* number of fetches sent to the remote side so far
    last_call,        \* None, or <<the last cache call: arguments, fetch, result>>
    tasks             \* update-prices background tasks: None | <<[ids, next]>>

VARIABLES
    latest_results,   \* the module variable of app.py: None | <<results>>
    response,         \* None, or <<the last response sent: endpoint, status, body>>
    pending           \* analyze requests waiting for their upload: None | <<upload>>

VARIABLES
    value_data,       \* MinifigBuilder.value_data: item_id -> None | <<value in tenths>>
    parts,            \* the list of Part objects given to the builder
    minifigures       \* None, or <<the list build_minifigures returned>>

\* the variables of the allocating finder, and those of the other components
finderVars == <<xml_items, inventory, minifig_ids, minifig_cache, price_cache, pc,
                complete_matches, partial_matches, idx, allocated_parts, final_results,
                first_results>>

backendVars == <<backend_matches>>

cacheVars == <<cache_files, apis, remote_calls, last_call, tasks>>

serverVars == <<latest_results, response, pending>>

builderVars == <<value_data, parts, minifigures>>

otherVars == <<backendVars, cacheVars, serverVars, builderVars>>

vars == <<finderVars, otherVars>>

\* ------------------------------------------ search_minifigs: helper steps
ZeroLedger == [p \in Parts |-> 0]

\* faulty variant: the ledger of the previous search is kept
FreshLedger_Stale(old) == old

\* allocated_parts = defaultdict(int), whatever an earlier search left behind
FreshLedger(old) == ZeroLedger

\* faulty variant: the running minimum is overwritten by the latest part
MinCopies_Latest(max_copies, copies_for_part) == Some(copies_for_part)

\* max_copies after one more part
MinCopies(max_copies, copies_for_part) ==
    IF max_copies = None THEN Some(copies_for_part)
    ELSE Some(Min(max_copies[1], copies_for_part))

\* faulty variant: one copy per accepted build
CopiesToAllocate_One(max_copies) == 1

CopiesToAllocate(max_copies) == IF max_copies # None THEN max_copies[1] ELSE 1

\* first pass: check every id in enumeration order, keep the matches
FirstPass(inv, mcache, pcache, ids) ==
    Flatten([i \in 1..Len(ids) |-> check_minifig(inv, mcache, pcache, ids[i])])

WithProfit(m) == [m EXCEPT !.profit = IF m.can_build THEN calculate_profit(m) ELSE 0]

CanBuild(m) == m.can_build
HasMatched(m) == m.matched_parts > 0

\* the inner loop of Phase 1 over match.matched_details, from detail i on;
\* raised stands for the ZeroDivisionError of remaining_available // 0
RECURSIVE Phase1Scan(_, _, _, _, _)
Phase1Scan(inv, ledger, details, i, acc) ==
    IF i > Len(details) THEN acc
    ELSE LET part_detail         == details[i]
             quantity_needed     == part_detail.quantity
             available           == has_part(inv, part_detail.part_id, quantity_needed).available
             remaining_available == available - ledger[part_detail.part_id]
         IN  IF remaining_available < quantity_needed
             THEN [acc EXCEPT !.can_still_build = FALSE]
             ELSE IF quantity_needed = 0
             THEN [acc EXCEPT !.raised = TRUE]
             ELSE LET copies_for_part == FloorDiv(remaining_available, quantity_needed)
                  IN  Phase1Scan(inv, ledger, details, i + 1,
                        [acc EXCEPT
                           !.parts_to_allocate = Append(@, <<part_detail.part_id, quantity_needed>>),
                           !.max_copies = MinCopies(@, copies_for_part)])

\* faulty variant: never more than one copy
ScanStart_OneCopy == [can_still_build |-> TRUE, parts_to_allocate |-> <<>>,
                      max_copies |-> Some(1), raised |-> FALSE]

\* can_still_build = True, parts_to_allocate = [], max_copies = None
ScanStart == [can_still_build |-> TRUE, parts_to_allocate |-> <<>>, max_copies |-> None,
              raised |-> FALSE]

\* faulty variant: the units are given back instead of taken
LedgerAdd_Release(ledger, key, units) == [ledger EXCEPT ![key] = @ - units]

\* allocated_parts[key] += units
LedgerAdd(ledger, key, units) == [ledger EXCEPT ![key] = @ + units]

\* allocated_parts[key] += qty * copies, one entry of parts_to_allocate after the other
RECURSIVE Commit(_, _, _)
Commit(ledger, parts_to_allocate, copies) ==
    IF parts_to_allocate = <<>> THEN ledger
    ELSE LET key == Head(parts_to_allocate)[1]
             qty == Head(parts_to_allocate)[2]
         IN  Commit(LedgerAdd(ledger, key, qty * copies), Tail(parts_to_allocate), copies)

\* faulty variant: a candidate that failed the re-check is accepted as well
Accepts_Always(scan) == TRUE

\* if can_still_build:
Accepts(scan) == scan.can_still_build

\* faulty variant: the ledger is not looked at
StillAvailable_Raw(inv, ledger, part_detail) ==
    has_part(inv, part_detail.part_id, part_detail.quantity).available >= part_detail.quantity

\* Phase 2: the split of match.matched_details against the ledger
StillAvailable(inv, ledger, part_detail) ==
    has_part(inv, part_detail.part_id, part_detail.quantity).available
        - ledger[part_detail.part_id] >= part_detail.quantity

UnavailableDetail(inv, ledger, part_detail) ==
    LET remaining_available ==
            has_part(inv, part_detail.part_id, part_detail.quantity).available
                - ledger[part_detail.part_id]
    IN  [part_id |-> part_detail.part_id, needed |-> part_detail.quantity,
         available |-> Max(0, remaining_available),
         short_by |-> part_detail.quantity - Max(0, remaining_available),
         price |-> part_detail.price, remarks |-> ReservedRemark]

PartialRecord(inv, ledger, match) ==
    LET Avail(d)          == StillAvailable(inv, ledger, d)
        Gone(d)           == ~StillAvailable(inv, ledger, d)
        available_parts   == SelectSeq(match.matched_details, Avail)
        gone              == SelectSeq(match.matched_details, Gone)
        unavailable_parts == [i \in 1..Len(gone) |-> UnavailableDetail(inv, ledger, gone[i])]
    IN  IF available_parts = <<>> \/ Len(available_parts) = match.total_parts THEN None
        ELSE Some([minifig_id       |-> match.minifig_id,
                   year_released    |-> match.year_released,
                   total_parts      |-> match.total_parts,
                   matched_parts    |-> Len(available_parts),
                   missing_parts    |-> match.total_parts - Len(available_parts),
                   match_percentage |-> MatchPct(Len(available_parts), match.total_parts),
                   can_build        |-> FALSE,
                   buildable_count  |-> 0,
                   missing_details  |-> unavailable_parts \o match.missing_details,
                   matched_details  |-> available_parts,
                   price_data       |-> match.price_data,
                   profit           |-> 0])

\* "for match in complete_matches" from candidate i on, as one function
RECURSIVE Phase1Fold(_, _, _, _, _)
Phase1Fold(inv, complete, i, ledger, out) ==
    IF i > Len(complete) THEN [raised |-> FALSE, ledger |-> ledger, results |-> out]
    ELSE LET match == complete[i]
             scan  == Phase1Scan(inv, ledger, match.matched_details, 1, ScanStart)
             copies_to_allocate == CopiesToAllocate(scan.max_copies)
         IN  IF scan.raised THEN [raised |-> TRUE, ledger |-> ledger, results |-> out]
             ELSE IF Accepts(scan)
             THEN Phase1Fold(inv, complete, i + 1,
                             Commit(ledger, scan.parts_to_allocate, copies_to_allocate),
                             Append(out, [match EXCEPT !.buildable_count = copies_to_allocate]))
             ELSE Phase1Fold(inv, complete, i + 1, ledger, out)

\* "for match in partial_matches", as one function
Phase2Fold(inv, ledger, partial) ==
    Flatten([i \in 1..Len(partial) |-> PartialRecord(inv, ledger, partial[i])])

\* one call of search_minifigs from its arguments to its return value
search_minifigs(inv, mcache, pcache, ids) ==
    LET all_matches == FirstPass(inv, mcache, pcache, ids)
        scored      == [i \in 1..Len(all_matches) |-> WithProfit(all_matches[i])]
        complete    == SortComplete(SelectSeq(scored, CanBuild))
        partial     == SortPartial(SelectSeq(scored, HasMatched))
        phase1      == Phase1Fold(inv, complete, 1, ZeroLedger, <<>>)
    IN  IF phase1.raised THEN [raised |-> TRUE, results |-> <<>>]
        ELSE [raised |-> FALSE,
              results |-> phase1.results \o Phase2Fold(inv, phase1.ledger, partial)]

\* where search_minifigs stands after the complete loop has consumed n candidates
AfterPhase1(n, complete, partial) ==
    IF n < Len(complete) THEN "phase1" ELSE IF partial # <<>> THEN "phase2" ELSE "done"

\* ------------------------------------------------------------- actions
\* InventoryParser.load: every ITEM element of the file, in document order
load ==
    /\ pc = "load"
    /\ inventory' = load_items(inventory, xml_items)
    /\ pc' = "idle"
    /\ UNCHANGED <<xml_items, minifig_ids, minifig_cache, price_cache, complete_matches,
                   partial_matches, idx, allocated_parts, final_results, first_results>>
    /\ UNCHANGED otherVars

\* search_minifigs up to the allocation loops: first pass, profit, split, sorts,
\* a fresh ledger and an empty result list
Start ==
    /\ pc = "idle"
    /\ LET all_matches == FirstPass(inventory, minifig_cache, price_cache, minifig_ids)
           scored      == [i \in 1..Len(all_matches) |-> WithProfit(all_matches[i])]
           complete    == SortComplete(SelectSeq(scored, CanBuild))
           partial     == SortPartial(SelectSeq(scored, HasMatched))
       IN  /\ complete_matches' = complete
           /\ partial_matches' = partial
           /\ pc' = AfterPhase1(0, complete, partial)
    /\ allocated_parts' = FreshLedger(allocated_parts)
    /\ final_results' = <<>>
    /\ idx' = 1
    /\ UNCHANGED <<xml_items, inventory, minifig_ids, minifig_cache, price_cache, first_results>>
    /\ UNCHANGED otherVars

\* faulty variant: an accepted build is also taken out of the inventory
Phase1Step_Decrementing ==
    /\ pc = "phase1"
    /\ LET match == complete_matches[idx]
           scan  == Phase1Scan(inventory, allocated_parts, match.matched_details, 1, ScanStart)
           copies_to_allocate == CopiesToAllocate(scan.max_copies)
           ledger == Commit(allocated_parts, scan.parts_to_allocate, copies_to_allocate)
       IN  /\ ~scan.raised
           /\ IF Accepts(scan)
              THEN /\ allocated_parts' = ledger
                   /\ inventory' =
                         [p \in Parts |->
                             IF inventory[p] = None THEN None
                             ELSE Some([inventory[p][1] EXCEPT
                                          !.quantity = @ - (ledger[p] - allocated_parts[p])])]
                   /\ final_results' =
                         Append(final_results,
                                [match EXCEPT !.buildable_count = copies_to_allocate])
              ELSE UNCHANGED <<inventory, allocated_parts, final_results>>
           /\ pc' = AfterPhase1(idx, complete_matches, partial_matches)
           /\ idx' = IF idx < Len(complete_matches) THEN idx + 1 ELSE 1
    /\ UNCHANGED <<xml_items, minifig_ids, minifig_cache, price_cache, complete_matches,
                   partial_matches, first_results>>
    /\ UNCHANGED otherVars

\* one iteration of "for match in complete_matches"
Phase1Step ==
    /\ pc = "phase1"
    /\ LET match == complete_matches[idx]
           scan  == Phase1Scan(inventory, allocated_parts, match.matched_details, 1, ScanStart)
           copies_to_allocate == CopiesToAllocate(scan.max_copies)
       IN  IF scan.raised
           THEN /\ pc' = "error"
                /\ UNCHANGED <<allocated_parts, final_results, idx>>
           ELSE /\ IF Accepts(scan)
                   THEN /\ allocated_parts' =
                              Commit(allocated_parts, scan.parts_to_allocate, copies_to_allocate)
                        /\ final_results' =
                              Append(final_results,
                                     [match EXCEPT !.buildable_count = copies_to_allocate])
                   ELSE UNCHANGED <<allocated_parts, final_results>>
                /\ pc' = AfterPhase1(idx, complete_matches, partial_matches)
                /\ idx' = IF idx < Len(complete_matches) THEN idx + 1 ELSE 1
    /\ UNCHANGED <<xml_items, inventory, minifig_ids, minifig_cache, price_cache, complete_matches,
                   partial_matches, first_results>>
    /\ UNCHANGED otherVars

\* faulty variant: a partial build reserves its matched parts
Phase2Step_Reserving ==
    /\ pc = "phase2"
    /\ LET rec == PartialRecord(inventory, allocated_parts, partial_matches[idx])
       IN  /\ final_results' = final_results \o rec
           /\ allocated_parts' =
                 IF rec = None THEN allocated_parts
                 ELSE Commit(allocated_parts,
                             [i \in 1..Len(rec[1].matched_details) |->
                                 <<rec[1].matched_details[i].part_id,
                                   rec[1].matched_details[i].quantity>>], 1)
    /\ pc' = IF idx < Len(partial_matches) THEN "phase2" ELSE "done"
    /\ idx' = idx + 1
    /\ UNCHANGED <<xml_items, inventory, minifig_ids, minifig_cache, price_cache,
                   complete_matches, partial_matches, first_results>>
    /\ UNCHANGED otherVars

\* one iteration of "for match in partial_matches"; after the last one the
\* function returns final_results
Phase2Step ==
    /\ pc = "phase2"
    /\ LET rec == PartialRecord(inventory, allocated_parts, partial_matches[idx])
       IN  final_results' = final_results \o rec
    /\ pc' = IF idx < Len(partial_matches) THEN "phase2" ELSE "done"
    /\ idx' = idx + 1
    /\ UNCHANGED <<xml_items, inventory, minifig_ids, minifig_cache, price_cache, complete_matches,
                   partial_matches, allocated_parts, first_results>>
    /\ UNCHANGED otherVars

\* the caller keeps the returned list and calls search_minifigs again with the
\* same finder, inventory and caches
SearchAgain ==
    /\ pc = "done"
    /\ first_results = None
    /\ first_results' = Some(final_results)
    /\ pc' = "idle"
    /\ UNCHANGED <<xml_items, inventory, minifig_ids, minifig_cache, price_cache, complete_matches,
                   partial_matches, idx, allocated_parts, final_results>>
    /\ UNCHANGED otherVars

\* the backend finder searches the same inventory and catalog
backend_search ==
    /\ pc # "load"
    /\ backend_matches = None
    /\ backend_matches' =
          Some(backend_search_minifigs(inventory, minifig_cache, price_cache, minifig_ids))
    /\ UNCHANGED <<finderVars, cacheVars, serverVars, builderVars>>

\* a new CachedBrickLinkAPI object
new_api(a) ==
    /\ apis[a] = None
    /\ apis' = [apis EXCEPT ![a] = Some(CachedBrickLinkAPI(cache_files))]
    /\ last_call' = None
    /\ UNCHANGED <<cache_files, remote_calls, tasks>>
    /\ UNCHANGED <<finderVars, backendVars, serverVars, builderVars>>

\* a call of get_minifig_with_cache on an instance that runs no task
call_get_minifig(a, minifig_id, use_cache_only, fetch_ok) ==
    /\ apis[a] # None
    /\ tasks[a] = None
    /\ LET out == get_minifig_with_cache(apis[a][1], cache_files, minifig_id,
                                         use_cache_only, fetch_ok)
       IN  /\ out.fetch # "none" => remote_calls < MaxCalls
           /\ apis' = [apis EXCEPT ![a] = Some(out.self)]
           /\ cache_files' = out.files
           /\ remote_calls' = IF out.fetch = "none" THEN remote_calls ELSE remote_calls + 1
           /\ last_call' = Some([api |-> a, cache |-> "minifig", minifig_id |-> minifig_id,
                                 use_cache_only |-> use_cache_only, fetch |-> out.fetch,
                                 result |-> out.result])
    /\ UNCHANGED tasks
    /\ UNCHANGED <<finderVars, backendVars, serverVars, builderVars>>

\* a call of get_price_with_cache on an instance that runs no task
call_get_price(a, minifig_id, use_cache_only, outcome) ==
    /\ apis[a] # None
    /\ tasks[a] = None
    /\ LET out == get_price_with_cache(apis[a][1], cache_files, minifig_id,
                                       use_cache_only, outcome, remote_calls + 1)
       IN  /\ out.fetch # "none" => remote_calls < MaxCalls
           /\ apis' = [apis EXCEPT ![a] = Some(out.self)]
           /\ cache_files' = out.files
           /\ remote_calls' = IF out.fetch = "none" THEN remote_calls ELSE remote_calls + 1
           /\ last_call' = Some([api |-> a, cache |-> "price", minifig_id |-> minifig_id,
                                 use_cache_only |-> use_cache_only, fetch |-> out.fetch,
                                 result |-> out.result])
    /\ UNCHANGED tasks
    /\ UNCHANGED <<finderVars, backendVars, serverVars, builderVars>>

\* POST /api/cache/update-prices: a new instance and the ids of the minifig
\* cache file; with no id the request ends (400) and the instance is dropped,
\* otherwise the instance runs a background task over the ids
update_cache_prices(a) ==
    /\ apis[a] = None
    /\ LET ids == get_cached_minifig_ids(cache_files)
       IN  IF ids = <<>>
           THEN UNCHANGED <<apis, tasks>>
           ELSE /\ apis' = [apis EXCEPT ![a] = Some(CachedBrickLinkAPI(cache_files))]
                /\ tasks' = [tasks EXCEPT ![a] = Some([minifig_ids |-> ids, next |-> 1])]
    /\ last_call' = None
    /\ UNCHANGED <<cache_files, remote_calls>>
    /\ UNCHANGED <<finderVars, backendVars, serverVars, builderVars>>

\* one iteration of the loop of the background task update_prices
update_prices(a, outcome) ==
    /\ tasks[a] # None
    /\ tasks[a][1].next <= Len(tasks[a][1].minifig_ids)
    /\ LET minifig_id == tasks[a][1].minifig_ids[tasks[a][1].next]
           out == get_price_with_cache(apis[a][1], cache_files, minifig_id, FALSE, outcome,
                                       remote_calls + 1)
       IN  /\ out.fetch # "none" => remote_calls < MaxCalls
           /\ apis' = [apis EXCEPT ![a] = Some(out.self)]
           /\ cache_files' = out.files
           /\ remote_calls' = IF out.fetch = "none" THEN remote_calls ELSE remote_calls + 1
           /\ last_call' = Some([api |-> a, cache |-> "price", minifig_id |-> minifig_id,
                                 use_cache_only |-> FALSE, fetch |-> out.fetch,
                                 result |-> out.result])
    /\ tasks' = [tasks EXCEPT ![a] = Some([@[1] EXCEPT !.next = @ + 1])]
    /\ UNCHANGED <<finderVars, backendVars, serverVars, builderVars>>

Next == Start \/ Phase1Step \/ Phase2Step

\* POST /api/analyze up to "await file.read()": a file name that does not
\* end in .xml is refused at once, any other request waits for its upload
analyze_inventory(r, upload) ==
    /\ pending[r] = None
    /\ IF upload.xml
       THEN /\ pending' = [pending EXCEPT ![r] = Some(upload)]
            /\ UNCHANGED response
       ELSE /\ response' = Some([endpoint |-> "analyze", request |-> r, status |-> 400,
                                 body |-> None])
            /\ UNCHANGED pending
    /\ UNCHANGED latest_results
    /\ UNCHANGED <<finderVars, backendVars, cacheVars, builderVars>>

\* POST /api/analyze from the end of the await to the response: no other
\* handler runs in between
analyze_inventory_resume(r, fault) ==
    /\ pending[r] # None
    /\ LET out == analyze_inventory_body(latest_results, cache_files, pending[r][1], fault)
       IN  /\ latest_results' = out.latest_results
           /\ response' = Some([endpoint |-> "analyze", request |-> r, status |-> out.status,
                                body |-> out.body])
    /\ pending' = [pending EXCEPT ![r] = None]
    /\ UNCHANGED <<finderVars, backendVars, cacheVars, builderVars>>

\* GET /api/results
get_results(r) ==
    /\ pending[r] = None
    /\ response' = IF latest_results = None
                   THEN Some([endpoint |-> "results", request |-> r, status |-> 404,
                              body |-> None])
                   ELSE Some([endpoint |-> "results", request |-> r, status |-> 200,
                              body |-> latest_results])
    /\ UNCHANGED <<latest_results, pending>>
    /\ UNCHANGED <<finderVars, backendVars, cacheVars, builderVars>>

\* cli.main: builder.build_minifigures(parts)
build ==
    /\ minifigures = None
    /\ minifigures' = Some(build_minifigures(value_data, parts))
    /\ UNCHANGED <<value_data, parts>>
    /\ UNCHANGED <<finderVars, backendVars, cacheVars, serverVars>>

NextBackend == Next \/ backend_search

NextBuild == build

NextCache ==
    \/ \E a \in Apis : new_api(a)
    \/ \E a \in Apis, id \in Ids, use_cache_only \in BOOLEAN, fetch_ok \in BOOLEAN :
          call_get_minifig(a, id, use_cache_only, fetch_ok)
    \/ \E a \in Apis, id \in Ids, use_cache_only \in BOOLEAN, outcome \in PriceOutcomes :
          call_get_price(a, id, use_cache_only, outcome)

Faults == {"none", "write", "search"}

\* the clients of the service, one request at a time each
Requests == {"r1", "r2"}

\* uploads: a file name with or without .xml; a file the parser rejects, or
\* up to MaxItems part lines
UploadItems ==
    {[item_id |-> p, item_type |-> "P", qty |-> 1, price |-> 0, remarks |-> ""] : p \in Parts}

Uploads ==
    {[xml |-> x, items |-> it] :
        x \in BOOLEAN, it \in {None} \cup {Some(f) : f \in SeqsUpTo(UploadItems, MaxItems)}}

NextServer ==
    \/ \E r \in Requests, upload \in Uploads : analyze_inventory(r, upload)
    \/ \E r \in Requests, fault \in Faults : analyze_inventory_resume(r, fault)
    \/ \E r \in Requests : get_results(r)

NextUpdate ==
    \/ \E a \in Apis : update_cache_prices(a)
    \/ \E a \in Apis, outcome \in PriceOutcomes : update_prices(a, outcome)

NextAgain == Next \/ SearchAgain

NextLoad == load

\* ------------------------------------------------------- initial states
\* the other components before they have run
BackendIdle == backend_matches = None

CacheIdle ==
    /\ cache_files = [minifig_cache_file |-> [id \in Ids |-> None],
                      price_cache_file   |-> [id \in Ids |-> None]]
    /\ apis = [a \in Apis |-> None]
    /\ remote_calls = 0
    /\ last_call = None
    /\ tasks = [a \in Apis |-> None]

ServerIdle ==
    /\ latest_results = None
    /\ response = None
    /\ pending = [r \in Requests |-> None]

\* the identifiers of the parts the builder is given
PartIds == {"h1", "h2", "t1", "l1", "g1", "b1"}

BuilderIdle ==
    /\ value_data = [id \in PartIds |-> None]
    /\ parts = <<>>
    /\ minifigures = None

OtherInit ==
    /\ BackendIdle
    /\ CacheIdle
    /\ ServerIdle
    /\ BuilderIdle

InvEntries(qtys, prices) ==
    {None} \cup {Some([quantity |-> q, price |-> pr, remarks |-> StockRemark]) :
                    q \in qtys, pr \in prices}

Line(p, q, alt, cp) == [part_id |-> p, quantity |-> q, is_alternate |-> alt, is_counterpart |-> cp]

RegularLines == {Line(p, q, FALSE, FALSE) : p \in Parts, q \in Needs}

Recipes == SeqsUpTo(RegularLines, MaxLines) \ {<<>>}

Years == {None} \cup {Some(y) : y \in 1..MaxYear}

PriceEntry(used, new) == Some([data |-> Some([ordered_used |-> used, ordered_new |-> new])])

Entry(y, ps) == Some([year_released |-> y, parts |-> ps])

\* a finder that has not searched yet
FinderIdle ==
    /\ xml_items = <<>>
    /\ minifig_ids = cached_minifig_ids
    /\ pc = "idle"
    /\ complete_matches = <<>>
    /\ partial_matches = <<>>
    /\ idx = 1
    /\ allocated_parts = ZeroLedger
    /\ final_results = <<>>
    /\ first_results = None

CommonInit == FinderIdle /\ OtherInit

\* well-formed catalog: every line regular with a positive quantity; a PartRef
\* may appear on more than one line of a recipe; no price data, so that the
\* complete candidates are processed in enumeration order
Init ==
    /\ inventory \in [Parts -> InvEntries(1..MaxQty, {MaxPrice})]
    /\ minifig_cache \in [Ids -> {Entry(None, ps) : ps \in Recipes}]
    /\ price_cache \in [Ids -> {None}]
    /\ CommonInit

Spec == Init /\ [][Next]_vars

\* recipes that list every PartRef on at most one line
DistinctRecipes ==
    {ps \in Recipes : \A i, j \in 1..Len(ps) : ps[i].part_id = ps[j].part_id => i = j}

\* inputs that vary all three sort keys: year, market value, parts cost
InitSort ==
    /\ inventory \in [Parts -> InvEntries(1..MaxQty, {MaxPrice})]
    /\ minifig_cache \in [Ids -> {Entry(y, ps) : y \in Years, ps \in DistinctRecipes}]
    /\ price_cache \in [Ids -> {None, PriceEntry(Some(MaxMarket), None)}]
    /\ CommonInit

SpecSort == InitSort /\ [][Next]_vars

\* inputs that make ties: a candidate without a year next to one released in
\* year 0, no price data, one price for every part
TieYears == {None, Some(0), Some(MaxYear)}

InitTies ==
    /\ inventory \in [Parts -> InvEntries({1, MaxQty}, {MaxPrice})]
    /\ minifig_cache \in [Ids -> {Entry(y, ps) : y \in TieYears, ps \in DistinctRecipes}]
    /\ price_cache \in [Ids -> {None}]
    /\ CommonInit

SpecTies == InitTies /\ [][Next]_vars

\* both finders on one input: years vary, since the backend sorts on them
InitBackend ==
    /\ inventory \in [Parts -> InvEntries(1..MaxQty, {MaxPrice})]
    /\ minifig_cache \in [Ids -> {Entry(y, ps) : y \in Years, ps \in DistinctRecipes}]
    /\ price_cache \in [Ids -> {None}]
    /\ CommonInit

SpecBackend == InitBackend /\ [][NextBackend]_vars

InitDistinct ==
    /\ inventory \in [Parts -> InvEntries(1..MaxQty, {MaxPrice})]
    /\ minifig_cache \in [Ids -> {Entry(None, ps) : ps \in DistinctRecipes}]
    /\ price_cache \in [Ids -> {None, PriceEntry(Some(MaxMarket), None)}]
    /\ CommonInit

SpecDistinct == InitDistinct /\ [][Next]_vars

\* the same inputs, the caller searching a second time
SpecAgain == InitDistinct /\ [][NextAgain]_vars

\* the scenario of ten heads: ten units of p1, two candidates that each need
\* one p1 and nothing else; years, prices and the rest of the stock vary
InitScenario ==
    /\ inventory \in {inv \in [Parts -> InvEntries({10} \cup 1..MaxQty, 0..MaxPrice)] :
                         inv["p1"] # None /\ inv["p1"][1].quantity = 10}
    /\ minifig_cache \in [Ids -> {Entry(y, <<Line("p1", 1, FALSE, FALSE)>>) : y \in Years}]
    /\ price_cache \in [Ids -> {None, PriceEntry(Some(MaxMarket), None),
                                PriceEntry(None, Some(MaxMarket - 1))}]
    /\ CommonInit

SpecScenario == InitScenario /\ [][Next]_vars

\* catalog entries with alternate and counterpart lines, and recipes with no
\* regular line at all (the empty recipe among them)
FlaggedLines == {Line("p1", 1, TRUE, FALSE), Line("p1", 1, FALSE, TRUE)}

UnitLines == {Line(p, 1, FALSE, FALSE) : p \in Parts}

InitFlags ==
    /\ inventory \in [Parts -> InvEntries(1..MaxQty, {MaxPrice})]
    /\ minifig_cache \in [Ids -> {Entry(None, ps) :
                                    ps \in SeqsUpTo(UnitLines \cup FlaggedLines, MaxLines)}]
    /\ price_cache \in [Ids -> {None}]
    /\ CommonInit

SpecFlags == InitFlags /\ [][Next]_vars

\* catalog entries whose regular lines may carry a quantity of 0 or -1, and
\* inventory entries that may hold 0 units
AnyQtyLines == {Line(p, q, FALSE, FALSE) : p \in Parts, q \in (0 - 1)..2}

InitQuantities ==
    /\ inventory \in [Parts -> InvEntries(0..MaxQty, {MaxPrice})]
    /\ minifig_cache \in [Ids -> {Entry(None, ps) :
                                    ps \in SeqsUpTo(AnyQtyLines, MaxLines) \ {<<>>}}]
    /\ price_cache \in [Ids -> {None}]
    /\ CommonInit

SpecQuantities == InitQuantities /\ [][Next]_vars

\* price records of every shape the cache holds: no record, an empty data
\* block, a block without averages, with one, with both, with a used average 0
PriceOptions ==
    {None, Some([data |-> None]), PriceEntry(None, None),
     PriceEntry(Some(MaxMarket), None), PriceEntry(None, Some(MaxMarket - 1)),
     PriceEntry(Some(MaxMarket), Some(1)), PriceEntry(Some(0), Some(MaxMarket)),
     PriceEntry(Some(0), None)}

InitPrices ==
    /\ inventory \in [Parts -> InvEntries({MaxQty}, {MaxPrice})]
    /\ minifig_cache \in [Ids -> {Entry(None, ps) : ps \in DistinctRecipes}]
    /\ price_cache \in [Ids -> PriceOptions]
    /\ CommonInit

SpecPrices == InitPrices /\ [][Next]_vars

\* sparse data: any prefix of the id list (the empty one too), any subset of
\* the PartRefs in stock (none at all too), quantities of any sign in the recipes
IdLists == {SubSeq(cached_minifig_ids, 1, n) : n \in 0..Len(cached_minifig_ids)}

AnyQtyRecipes ==
    {ps \in SeqsUpTo(AnyQtyLines, 2) \ {<<>>} :
        \A i, j \in 1..Len(ps) : ps[i].part_id = ps[j].part_id => i = j}

InitSparse ==
    /\ xml_items = <<>>
    /\ inventory \in [Parts -> InvEntries(1..MaxQty, {MaxPrice})]
    /\ minifig_ids \in IdLists
    /\ minifig_cache \in [Ids -> {Entry(None, ps) : ps \in AnyQtyRecipes}]
    /\ price_cache \in [Ids -> {None}]
    /\ pc = "idle"
    /\ complete_matches = <<>>
    /\ partial_matches = <<>>
    /\ idx = 1
    /\ allocated_parts = ZeroLedger
    /\ final_results = <<>>
    /\ first_results = None
    /\ OtherInit

SpecSparse == InitSparse /\ [][Next]_vars

\* no inventory and no catalog in the finder: the state of the finder while
\* another component is looked at
NoSearch ==
    /\ inventory = [p \in Parts |-> None]
    /\ minifig_cache = [id \in Ids |-> None]
    /\ price_cache = [id \in Ids |-> None]
    /\ FinderIdle

\* cache files holding any subset of the ids, before any instance exists
StoredMinifigs ==
    {[id \in Ids |-> IF id \in S THEN Some(RemoteMinifig(id)) ELSE None] : S \in SUBSET Ids}

StoredPrices ==
    {[id \in Ids |-> IF id \in S THEN Some([data |-> Some(RemoteGuide), updated |-> 0]) ELSE None] :
        S \in SUBSET Ids}

InitCache ==
    /\ NoSearch
    /\ BackendIdle
    /\ cache_files \in {[minifig_cache_file |-> m, price_cache_file |-> p] :
                          m \in StoredMinifigs, p \in StoredPrices}
    /\ apis = [a \in Apis |-> None]
    /\ remote_calls = 0
    /\ last_call = None
    /\ tasks = [a \in Apis |-> None]
    /\ ServerIdle
    /\ BuilderIdle

\* instances used directly
SpecCache == InitCache /\ [][NextCache]_vars

\* update-prices tasks next to instances used directly
SpecUpdate == InitCache /\ [][NextUpdate \/ NextCache]_vars

\* the web service at start-up, over cache files holding any subset of the
\* ids
InitServer ==
    /\ NoSearch
    /\ BackendIdle
    /\ cache_files \in {[minifig_cache_file |-> m, price_cache_file |-> p] :
                          m \in StoredMinifigs, p \in StoredPrices}
    /\ apis = [a \in Apis |-> None]
    /\ remote_calls = 0
    /\ last_call = None
    /\ tasks = [a \in Apis |-> None]
    /\ ServerIdle
    /\ BuilderIdle

SpecServer == InitServer /\ [][NextServer]_vars

\* the parts given to the builder: up to MaxLots lots of heads (two items),
\* torsos and legs, a lot being a Part with a quantity of 1 or MaxQty, so that
\* an item may come in several lots; fewer than MaxLots lots of headgear;
\* with or without a part of another kind and a minifigure named like a
\* head; with or without a value for h2
HeadLots == {Part("h1", q, "P", {"head"}) : q \in {1, MaxQty}} \cup {Part("h2", 1, "P", {"head"})}

TorsoLots == {Part("t1", q, "P", {"torso"}) : q \in {1, MaxQty}}

LegsLots == {Part("l1", q, "P", {"legs", "hips"}) : q \in {1, MaxQty}}

HeadgearLots == {Part("g1", 1, "P", {"head", "headgear"})}

OtherParts == <<Part("b1", 1, "P", {}), Part("h1", 1, "M", {"head"})>>

InitBuild ==
    /\ NoSearch
    /\ BackendIdle
    /\ CacheIdle
    /\ ServerIdle
    /\ value_data \in {[id \in PartIds |-> None],
                       [id \in PartIds |-> IF id = "h2" THEN Some(20) ELSE None]}
    /\ parts \in {heads \o headgear \o torsos \o legs \o others :
                     heads \in SeqsUpTo(HeadLots, MaxLots),
                     headgear \in SeqsUpTo(HeadgearLots, MaxLots - 1),
                     torsos \in SeqsUpTo(TorsoLots, MaxLots),
                     legs \in SeqsUpTo(LegsLots, MaxLots),
                     others \in {<<>>, OtherParts}}
    /\ minifigures = None

SpecBuild == InitBuild /\ [][NextBuild]_vars

\* the inventory file: up to MaxItems ITEM elements of parts (P), minifigures
\* (M) and sets (S), with or without a price and a remark
ItemTypes == {"P", "M", "S"}

Item(id, type, qty, price, remarks) ==
    [item_id |-> id, item_type |-> type, qty |-> qty, price |-> price, remarks |-> remarks]

Items ==
    {Item(id, type, qty, price, remarks) :
        id \in Parts, type \in ItemTypes, qty \in {1, MaxQty}, price \in {0, MaxPrice},
        remarks \in {"", StockRemark, OtherRemark}}

InitLoad ==
    /\ xml_items \in SeqsUpTo(Items, MaxItems)
    /\ inventory = [p \in Parts |-> None]
    /\ minifig_ids = cached_minifig_ids
    /\ minifig_cache \in [Ids -> {Entry(None, <<Line("p1", 1, FALSE, FALSE)>>)}]
    /\ price_cache \in [Ids -> {None}]
    /\ pc = "load"
    /\ complete_matches = <<>>
    /\ partial_matches = <<>>
    /\ idx = 1
    /\ allocated_parts = ZeroLedger
    /\ final_results = <<>>
    /\ first_results = None
    /\ OtherInit

SpecLoad == InitLoad /\ [][NextLoad]_vars

\* ------------------------------------------------------------ the claims
InvQty(p) == IF inventory[p] = None THEN 0 ELSE inventory[p][1].quantity

IsComplete(r) == r.can_build
IsPartial(r) == ~r.can_build

CompleteOut == SelectSeq(final_results, IsComplete)
PartialOut == SelectSeq(final_results, IsPartial)

\* units of PartRef p on the lines of one detail list
UnitsIn(details, p) ==
    SumSeq([i \in 1..Len(details) |->
               IF details[i].part_id = p THEN details[i].quantity ELSE 0])

\* quantity_needed x buildable_count summed over the complete builds of results
CompleteUnits(results, p) ==
    SumSeq([i \in 1..Len(results) |->
               IF results[i].can_build
               THEN UnitsIn(results[i].matched_details, p) * results[i].buildable_count
               ELSE 0])

\* quantity_needed summed over the matched lines of the partial builds of results
PartialUnits(results, p) ==
    SumSeq([i \in 1..Len(results) |->
               IF results[i].can_build THEN 0
               ELSE UnitsIn(results[i].matched_details, p)])

\* C1: at every point of a search, for each PartRef the ledger entry and the
\* units committed to the complete builds emitted so far (quantity_needed x
\* buildable_count) are at most the inventory quantity of that PartRef.
C1_NoOverCommit ==
    \A p \in Parts :
        /\ allocated_parts[p] <= InvQty(p)
        /\ CompleteUnits(final_results, p) <= InvQty(p)

\* C2: for each PartRef, the units claimed by complete builds plus the units
\* listed as matched by the emitted partial builds are at most the inventory
\* quantity: no unit is counted for two builds.
C2_NoDoubleCount ==
    \A p \in Parts :
        CompleteUnits(final_results, p) + PartialUnits(final_results, p) <= InvQty(p)

\* C3: the complete builds of the output are in descending order of
\* (match_percentage, profit, year_released or 0), each has match_percentage
\* 100, can_build and no missing part, and none follows a partial build.
C3_CompleteSorted ==
    /\ \A i \in 1..Len(CompleteOut) :
          /\ CompleteOut[i].match_percentage = 100
          /\ CompleteOut[i].missing_parts = 0
          /\ CompleteOut[i].missing_details = <<>>
          /\ i < Len(CompleteOut) =>
                ~KeyLess(CompleteKey(CompleteOut[i]), CompleteKey(CompleteOut[i + 1]))
    /\ \A i, j \in 1..Len(final_results) :
          (i < j /\ final_results[j].can_build) => final_results[i].can_build

\* two complete builds with different keys were returned, the second of the
\* enumeration first
C3_Witness ==
    /\ pc = "done"
    /\ Len(CompleteOut) = 2
    /\ CompleteKey(CompleteOut[1]) # CompleteKey(CompleteOut[2])
    /\ CompleteOut[1].minifig_id = minifig_ids[2]

\* C4: the partial builds of the output are in descending order of
\* (match_percentage, parts_cost, year_released or 0), the values being those
\* of the emitted records.
C4_PartialSorted ==
    \A i \in 1..Len(PartialOut) :
        i < Len(PartialOut) =>
            ~KeyLess(PartialKey(PartialOut[i]), PartialKey(PartialOut[i + 1]))

\* C5: once the first candidate of Phase 1 has been processed, it heads the
\* output with buildable_count equal to the minimum over its recipe lines of
\* floor(inventory quantity / quantity_needed), which is the buildable_count
\* check_minifig computed for it, and with no missing part.
FirstDone ==
    /\ complete_matches # <<>>
    /\ \/ pc = "phase1" /\ idx > 1
       \/ pc \in {"phase2", "done"}

RecipeOf(id) == minifig_cache[id][1].parts

C5_FirstGetsMaxCopies ==
    FirstDone =>
        /\ final_results # <<>>
        /\ LET first  == complete_matches[1]
               built  == final_results[1]
               recipe == RecipeOf(first.minifig_id)
           IN  /\ built.minifig_id = first.minifig_id
               /\ built.can_build
               /\ built.missing_parts = 0
               /\ built.buildable_count = first.buildable_count
               /\ built.buildable_count =
                     MinSeq([i \in 1..Len(recipe) |->
                                InvQty(recipe[i].part_id) \div recipe[i].quantity])

\* the first candidate needed two different parts with different limits and
\* got the smaller one
C5_Witness ==
    /\ FirstDone
    /\ final_results # <<>>
    /\ final_results[1].buildable_count = 1
    /\ LET recipe == RecipeOf(final_results[1].minifig_id)
       IN  /\ Len(recipe) = 2
           /\ recipe[1].part_id # recipe[2].part_id
           /\ InvQty(recipe[1].part_id) \div recipe[1].quantity = 2
           /\ InvQty(recipe[2].part_id) \div recipe[2].quantity = 1

\* C6: a second search on the same finder, inventory and candidate list returns
\* the list the first search returned (same builds, order, copies and detail
\* lists); the ledger of the first search does not reach the second.
C6_SecondRunSame ==
    (pc = "done" /\ first_results # None) => final_results = first_results[1]

\* the second search is over, and the first one had committed stock
C6_Witness ==
    /\ pc = "done"
    /\ first_results # None
    /\ CompleteOut # <<>>
    /\ PartialOut # <<>>
    /\ \E p \in Parts : allocated_parts[p] > 0

\* C7 as stated: in the scenario of ten units and two one-part candidates, both
\* candidates are in the complete group of the output.
C7_BothAccepted ==
    pc = "done" =>
        \A id \in Ids : \E i \in 1..Len(CompleteOut) : CompleteOut[i].minifig_id = id

\* C7 amended: in that scenario only the candidate processed first is accepted,
\* with buildable_count 10 (all ten units are committed to it); the second is
\* skipped in Phase 1 and is in no group of the output.
C7_FirstTakesAll ==
    pc = "done" =>
        /\ Len(final_results) = 1
        /\ final_results[1].minifig_id = complete_matches[1].minifig_id
        /\ final_results[1].can_build
        /\ final_results[1].buildable_count = 10
        /\ allocated_parts["p1"] = 10

\* the scenario has run to its end with the second candidate of the
\* enumeration processed first
C7_Witness ==
    /\ pc = "done"
    /\ InvQty("p1") = 10
    /\ Len(complete_matches) = 2
    /\ complete_matches[1].minifig_id = minifig_ids[2]
    /\ final_results # <<>>

\* C8: every record in the missing_details of an emitted partial build shows
\* the stock left after Phase 1: available = max(0, inventory - ledger) and
\* short_by = needed - available, for parts missing from the start too.
C8_MissingRescored ==
    \A i \in 1..Len(PartialOut) :
        \A k \in 1..Len(PartialOut[i].missing_details) :
            LET d == PartialOut[i].missing_details[k]
            IN  /\ d.available = Max(0, InvQty(d.part_id) - allocated_parts[d.part_id])
                /\ d.short_by = d.needed - d.available

\* every record the search holds or has emitted
AllRecords ==
    {final_results[i] : i \in 1..Len(final_results)}
        \cup {complete_matches[i] : i \in 1..Len(complete_matches)}
        \cup {partial_matches[i] : i \in 1..Len(partial_matches)}

RegularOf(id) ==
    LET NotFlagged(l) == ~l.is_alternate /\ ~l.is_counterpart
    IN  SelectSeq(RecipeOf(id), NotFlagged)

NeededIn(details, p) ==
    SumSeq([i \in 1..Len(details) |->
               IF details[i].part_id = p THEN details[i].needed ELSE 0])

\* C9: a minifig whose recipe has no regular line has no record anywhere in the
\* search; every record counts exactly the regular lines of its recipe in
\* total_parts, matched_parts + missing_parts and its two detail lists; and the
\* ledger holds exactly the regular-line units of the accepted complete builds.
C9_OnlyRegularParts ==
    /\ \A r \in AllRecords :
          LET reg == RegularOf(r.minifig_id)
          IN  /\ reg # <<>>
              /\ r.total_parts = Len(reg)
              /\ r.matched_parts + r.missing_parts = Len(reg)
              /\ Len(r.matched_details) + Len(r.missing_details) = Len(reg)
              /\ \A p \in Parts :
                    UnitsIn(r.matched_details, p) + NeededIn(r.missing_details, p)
                        = UnitsIn(reg, p)
    /\ \A p \in Parts :
          allocated_parts[p] =
              SumSeq([i \in 1..Len(CompleteOut) |->
                         UnitsIn(RegularOf(CompleteOut[i].minifig_id), p)
                             * CompleteOut[i].buildable_count])

\* the search is over: one minifig had only flagged lines and is absent, the
\* other had a flagged line beside a regular one and was built
C9_Witness ==
    /\ pc = "done"
    /\ \E a, b \in Ids :
          /\ RecipeOf(a) # <<>>
          /\ RegularOf(a) = <<>>
          /\ Len(RecipeOf(b)) = 2
          /\ Len(RegularOf(b)) = 1
          /\ \E i \in 1..Len(final_results) :
                final_results[i].minifig_id = b /\ final_results[i].can_build
    /\ \E p \in Parts : allocated_parts[p] > 0

\* C10: a minifig whose recipe has a regular line with quantity <= 0 is left
\* out: it is in no group of the output, no ledger entry moves for it (none
\* goes below 0, no emitted build has a copy count below 1), and the search
\* raises no error.
Malformed(id) ==
    \E i \in 1..Len(RecipeOf(id)) :
        IsRegular(RecipeOf(id)[i]) /\ RecipeOf(id)[i].quantity <= 0

C10_MalformedExcluded ==
    /\ pc # "error"
    /\ \A i \in 1..Len(final_results) : ~Malformed(final_results[i].minifig_id)
    /\ \A i \in 1..Len(CompleteOut) : CompleteOut[i].buildable_count >= 1
    /\ \A p \in Parts : allocated_parts[p] >= 0

\* the two 6-month averages of a price record, None where the record, its data
\* block or the average is not there
UsedAvg(pd) == IF pd = None \/ pd[1].data = None THEN None ELSE pd[1].data[1].ordered_used
NewAvg(pd) == IF pd = None \/ pd[1].data = None THEN None ELSE pd[1].data[1].ordered_new

NoMarket(pd) == UsedAvg(pd) = None /\ NewAvg(pd) = None

\* the price cache with every record that gives no average replaced by one
\* whose used average equals the parts cost of the candidate (profit 0)
BreakEvenPrices ==
    [id \in Ids |->
        LET m == check_minifig(inventory, minifig_cache, price_cache, id)
        IN  IF NoMarket(price_cache[id]) /\ m # None
            THEN PriceEntry(Some(calculate_parts_cost(m[1])), None)
            ELSE price_cache[id]]

WithoutPrices(results) == [i \in 1..Len(results) |-> [results[i] EXCEPT !.price_data = None]]

\* C11: a candidate whose price record is absent, has an empty data block or
\* gives neither average gets profit 0, the search raises nothing, and the
\* search returns the builds (order, copies, detail lists, profits) it returns
\* when those candidates carry a price record that makes their profit 0.
C11_MissingPriceHarmless ==
    /\ pc # "error"
    /\ \A r \in AllRecords : NoMarket(r.price_data) => r.profit = 0
    /\ pc = "done" =>
          LET priced == search_minifigs(inventory, minifig_cache, BreakEvenPrices, minifig_ids)
          IN  /\ ~priced.raised
              /\ WithoutPrices(final_results) = WithoutPrices(priced.results)

\* the search is over; a candidate without any average was processed before a
\* priced candidate that sells at a loss, and both wanted the same stock
C11_Witness ==
    /\ pc = "done"
    /\ Len(complete_matches) = 2
    /\ NoMarket(complete_matches[1].price_data)
    /\ complete_matches[1].minifig_id = cached_minifig_ids[2]
    /\ complete_matches[2].profit < 0
    /\ Len(CompleteOut) = 1

\* C12: the profit of a can_build candidate whose price record gives an
\* average is market_value - parts_cost, the market value being the used
\* average whenever it is there (0 included) and the new average otherwise.
C12_UsedPreferred ==
    \A i \in 1..Len(complete_matches) :
        LET r == complete_matches[i]
            market_value == IF UsedAvg(r.price_data) # None THEN UsedAvg(r.price_data)[1]
                            ELSE NewAvg(r.price_data)[1]
            parts_cost == SumSeq([k \in 1..Len(r.matched_details) |->
                                    r.matched_details[k].price * r.matched_details[k].quantity])
        IN  ~NoMarket(r.price_data) => r.profit = market_value - parts_cost

EmptyInventory == \A p \in Parts : inventory[p] = None

\* the records of the first pass that the search still holds, and its output
HeldRecords ==
    {partial_matches[i] : i \in 1..Len(partial_matches)}
        \cup {final_results[i] : i \in 1..Len(final_results)}

\* C13: with no PartRef in stock, or with an empty id list, the search raises
\* nothing, keeps no candidate, commits nothing and returns the empty list;
\* and every regular recipe line whose PartRef is not in the inventory is
\* recorded missing with available 0, short_by = needed, price 0, remarks ''.
C13_SparseData ==
    /\ (EmptyInventory \/ minifig_ids = <<>>) =>
          /\ pc \in {"idle", "done"}
          /\ complete_matches = <<>>
          /\ partial_matches = <<>>
          /\ final_results = <<>>
          /\ allocated_parts = ZeroLedger
    /\ \A r \in HeldRecords :
          \A p \in Parts :
              inventory[p] = None =>
                  /\ UnitsIn(r.matched_details, p) = 0
                  /\ \A i \in 1..Len(RegularOf(r.minifig_id)) :
                        LET line == RegularOf(r.minifig_id)[i]
                        IN  line.part_id = p =>
                              \E k \in 1..Len(r.missing_details) :
                                  r.missing_details[k] =
                                      [part_id |-> p, needed |-> line.quantity, available |-> 0,
                                       short_by |-> line.quantity, price |-> 0, remarks |-> ""]

\* a search over both ids against an inventory that holds nothing has returned
C13_Witness ==
    /\ pc = "done"
    /\ EmptyInventory
    /\ Len(minifig_ids) = 2
    /\ \A id \in Ids : \A i \in 1..Len(RecipeOf(id)) : RecipeOf(id)[i].quantity > 0
    /\ final_results = <<>>

\* the ITEM lines of type P or M with PartRef p, in document order
StockLines(p) ==
    LET Counts(item) == item.item_type \in {"P", "M"} /\ item.item_id = p
    IN  SelectSeq(xml_items, Counts)

RECURSIVE FirstRemark(_)
FirstRemark(lines) ==
    IF lines = <<>> THEN ""
    ELSE IF Head(lines).remarks # "" THEN Head(lines).remarks ELSE FirstRemark(Tail(lines))

\* C14: after load, a PartRef has an entry exactly if some ITEM line of type P
\* or M names it; its quantity is the sum of QTY over those lines, its price
\* the price of the first of them, its remarks the first non-empty remark
\* among them; lines of another type leave the inventory as it is.
C14_LoadIsFold ==
    pc = "idle" =>
        \A p \in Parts :
            LET lines == StockLines(p)
            IN  IF lines = <<>> THEN inventory[p] = None
                ELSE inventory[p] =
                        Some([quantity |-> SumSeq([i \in 1..Len(lines) |-> lines[i].qty]),
                              price    |-> lines[1].price,
                              remarks  |-> FirstRemark(lines)])

\* a file was loaded in which a part line without price and remark is followed
\* by a minifigure line for the same PartRef with both
C14_Witness ==
    /\ pc = "idle"
    /\ Len(xml_items) = 2
    /\ xml_items[1].item_id = xml_items[2].item_id
    /\ xml_items[1].item_type = "P" /\ xml_items[2].item_type = "M"
    /\ xml_items[1].remarks = "" /\ xml_items[2].remarks # ""
    /\ xml_items[1].price = 0 /\ xml_items[2].price > 0
    /\ inventory[xml_items[1].item_id] # None
    /\ inventory[xml_items[1].item_id][1].quantity = xml_items[1].qty + xml_items[2].qty

Reserved(d) == d.remarks = ReservedRemark

\* the records check_minifig returns for the ids of the search
ReturnedByCheck ==
    LET all_matches == FirstPass(inventory, minifig_cache, price_cache, minifig_ids)
    IN  {all_matches[i] : i \in 1..Len(all_matches)}

ConsistentRecord(r) ==
    /\ r.matched_parts + r.missing_parts = r.total_parts
    /\ r.total_parts >= 1
    /\ Len(r.matched_details) = r.matched_parts
    /\ Len(r.missing_details) = r.missing_parts
    /\ r.match_percentage = (r.matched_parts * 100) \div r.total_parts
    /\ r.can_build <=> (r.matched_parts = r.total_parts)
    /\ \A k \in 1..Len(r.missing_details) :
          LET d == r.missing_details[k]
          IN  /\ d.short_by = d.needed - d.available
              /\ d.short_by >= 1
              /\ d.available >= 0

\* C15: every record check_minifig returns for the ids of the search (the
\* inputs are those of the initial state) and every record the search holds
\* or has emitted has matched_parts + missing_parts = total_parts >= 1, detail
\* lists as long as the two counts, match_percentage = matched_parts /
\* total_parts x 100, can_build exactly if matched_parts = total_parts, and in
\* every missing-detail record short_by = needed - available >= 1 with
\* available >= 0.
C15_RecordsConsistent ==
    /\ pc = "idle" => \A r \in ReturnedByCheck : ConsistentRecord(r)
    /\ \A r \in AllRecords : ConsistentRecord(r)

\* the output holds a complete build and a recomputed partial build that
\* lists a part short from the start beside a part still in stock
C15_Witness ==
    /\ pc = "done"
    /\ CompleteOut # <<>>
    /\ \E i \in 1..Len(PartialOut) :
          /\ PartialOut[i].matched_parts = 1
          /\ PartialOut[i].missing_parts = 1
          /\ ~Reserved(PartialOut[i].missing_details[1])
          /\ PartialOut[i].missing_details[1].available = 1

\* C16: a search starts with an empty ledger; within the search no entry ever
\* decreases; and an entry changes only in the step that accepts a complete
\* build.
C16_LedgerLifeCycle ==
    [][/\ (pc = "idle" /\ pc' # "idle") => allocated_parts' = ZeroLedger
       /\ pc # "idle" => \A p \in Parts : allocated_parts'[p] >= allocated_parts[p]
       /\ (pc # "idle" /\ allocated_parts' # allocated_parts) =>
             /\ pc = "phase1"
             /\ Len(final_results') = Len(final_results) + 1
             /\ final_results'[Len(final_results')].can_build]_vars

\* a second search has accepted two complete builds and committed stock of
\* every PartRef, after a first search that had done the same
C16_Witness ==
    /\ pc = "done"
    /\ first_results # None
    /\ Len(CompleteOut) = 2
    /\ \A p \in Parts : allocated_parts[p] > 0

\* C17: the step that accepts a complete build commits copies = the minimum
\* over the recipe lines of floor((inventory - ledger) / quantity_needed),
\* taken in the state before the step; copies >= 1; the ledger entry of every
\* PartRef grows by quantity_needed x copies for each line that names it; and
\* the emitted build carries buildable_count = copies.
C17_CopiesCommitted ==
    [][(pc = "phase1" /\ Len(final_results') = Len(final_results) + 1) =>
          LET match  == complete_matches[idx]
              recipe == RegularOf(match.minifig_id)
              copies == MinSeq([i \in 1..Len(recipe) |->
                                  (InvQty(recipe[i].part_id) - allocated_parts[recipe[i].part_id])
                                      \div recipe[i].quantity])
              built  == final_results'[Len(final_results')]
          IN  /\ copies >= 1
              /\ built.minifig_id = match.minifig_id
              /\ built.can_build
              /\ built.buildable_count = copies
              /\ \A p \in Parts :
                    allocated_parts'[p] = allocated_parts[p] + UnitsIn(recipe, p) * copies]_vars

\* two complete builds were accepted, the second on what the first had left of
\* a PartRef both need, which is less than the inventory holds
C17_Witness ==
    /\ Len(CompleteOut) = 2
    /\ \E p \in Parts :
          /\ UnitsIn(CompleteOut[1].matched_details, p) > 0
          /\ UnitsIn(CompleteOut[2].matched_details, p) > 0
          /\ CompleteOut[2].buildable_count =
                (InvQty(p) - CompleteOut[1].buildable_count
                                * UnitsIn(CompleteOut[1].matched_details, p))
                    \div UnitsIn(CompleteOut[2].matched_details, p)
          /\ CompleteOut[2].buildable_count <
                InvQty(p) \div UnitsIn(CompleteOut[2].matched_details, p)

\* some recipe line of match finds less than it needs of inventory - ledger
FailsRecheck(match) ==
    \E i \in 1..Len(match.matched_details) :
        InvQty(match.matched_details[i].part_id)
            - allocated_parts[match.matched_details[i].part_id]
                < match.matched_details[i].quantity

\* C18: the Phase 1 step for a can_build candidate that fails the re-check on
\* some part emits nothing and leaves every ledger entry as it was, the
\* entries of the parts found sufficient before the failing one too.
C18_SkippedLeavesLedger ==
    [][(pc = "phase1" /\ FailsRecheck(complete_matches[idx])) =>
          /\ allocated_parts' = allocated_parts
          /\ final_results' = final_results]_vars

\* the second complete candidate was skipped: its first line still found
\* enough stock, its second line did not
C18_Witness ==
    /\ pc \in {"phase2", "done"}
    /\ Len(complete_matches) = 2
    /\ Len(CompleteOut) = 1
    /\ CompleteOut[1].minifig_id = complete_matches[1].minifig_id
    /\ LET d == complete_matches[2].matched_details
       IN  /\ Len(d) = 2
           /\ InvQty(d[1].part_id) - allocated_parts[d[1].part_id] >= d[1].quantity
           /\ InvQty(d[2].part_id) - allocated_parts[d[2].part_id] < d[2].quantity

\* C19: a Phase 2 step leaves every ledger entry as it was, and the record it
\* emits (or its absence) is the one computed from the ledger Phase 1 ended
\* with, whatever partial builds were emitted before.
C19_Phase2KeepsLedger ==
    [][pc = "phase2" =>
          LET phase1 == Phase1Fold(inventory, complete_matches, 1, ZeroLedger, <<>>)
          IN  /\ allocated_parts' = allocated_parts
              /\ allocated_parts = phase1.ledger
              /\ final_results' =
                    final_results \o PartialRecord(inventory, phase1.ledger, partial_matches[idx])]_vars

\* Phase 2 has emitted two partial builds that both count the same PartRef as
\* matched, after Phase 1 had committed stock
C19_Witness ==
    /\ pc = "done"
    /\ Len(PartialOut) = 2
    /\ \E p \in Parts : allocated_parts[p] > 0
    /\ \E p \in Parts :
          /\ UnitsIn(PartialOut[1].matched_details, p) > 0
          /\ UnitsIn(PartialOut[2].matched_details, p) > 0

\* the first-pass matched lines of m that still find their quantity in
\* inventory - ledger, and those that do not
LeftFor(m) ==
    LET Left(d) == InvQty(d.part_id) - allocated_parts[d.part_id] >= d.quantity
    IN  SelectSeq(m.matched_details, Left)

TakenFrom(m) ==
    LET Taken(d) == InvQty(d.part_id) - allocated_parts[d.part_id] < d.quantity
    IN  SelectSeq(m.matched_details, Taken)

PartialsOf(id) ==
    LET Mine(r) == r.minifig_id = id
    IN  SelectSeq(PartialOut, Mine)

\* C20: when the search is over, a candidate has a partial build in the
\* output exactly if the first pass matched at least one of its parts and the
\* number k of those parts still available after Phase 1 has 0 < k <
\* total_parts; the build is unique, has matched_parts = k and can_build
\* false, and lists every first-pass match that is no longer available in
\* missing_details with the remark of reserved parts.
C20_EmissionRule ==
    pc = "done" =>
        \A n \in 1..Len(minifig_ids) :
            LET id == minifig_ids[n]
                m  == check_minifig(inventory, minifig_cache, price_cache, id)
                k  == IF m = None THEN 0 ELSE Len(LeftFor(m[1]))
                emitted == PartialsOf(id)
            IN  /\ Len(emitted) <= 1
                /\ (emitted # <<>>) <=>
                      (m # None /\ m[1].matched_parts > 0 /\ 0 < k /\ k < m[1].total_parts)
                /\ emitted # <<>> =>
                      /\ emitted[1].matched_parts = k
                      /\ emitted[1].matched_details = LeftFor(m[1])
                      /\ ~emitted[1].can_build
                      /\ SelectSeq(emitted[1].missing_details, Reserved) =
                            [i \in 1..Len(TakenFrom(m[1])) |->
                                UnavailableDetail(inventory, allocated_parts, TakenFrom(m[1])[i])]

\* the search is over: a candidate that matched both its parts in the first
\* pass is emitted as a partial build with one part left and one reserved,
\* and another candidate with first-pass matches is not emitted at all
C20_Witness ==
    /\ pc = "done"
    /\ Len(partial_matches) = 2
    /\ Len(PartialOut) = 1
    /\ PartialOut[1].total_parts = 2
    /\ PartialOut[1].matched_parts = 1
    /\ Reserved(PartialOut[1].missing_details[1])
    /\ CompleteOut # <<>>
    /\ CompleteOut[1].minifig_id # PartialOut[1].minifig_id

\* C21: a search never writes the inventory: every step of search_minifigs
\* leaves every entry (quantity, price, remarks) as it was, and a Phase 1 step
\* accepts its candidate exactly if every line finds its quantity in the
\* inventory quantity minus the ledger entry.
C21_InventoryReadOnly ==
    [][pc # "load" =>
          /\ inventory' = inventory
          /\ pc = "phase1" =>
                (final_results' # final_results <=> ~FailsRecheck(complete_matches[idx]))]_vars

\* the search is over: all the stock of a PartRef is committed to an accepted
\* build, a second candidate was refused for it, and the inventory still holds
\* the quantity
C21_Witness ==
    /\ pc = "done"
    /\ Len(complete_matches) = 2
    /\ Len(CompleteOut) = 1
    /\ \E p \in Parts : allocated_parts[p] > 0 /\ InvQty(p) = allocated_parts[p]

\* position of a candidate in the enumeration order, and in a list of records
Pos(id) == CHOOSE n \in 1..Len(minifig_ids) : minifig_ids[n] = id

PosIn(ms, id) == CHOOSE n \in 1..Len(ms) : ms[n].minifig_id = id

\* ms is in descending key order and its runs of equal keys are in
\* enumeration order
StablySorted(ms, Key(_)) ==
    \A i, j \in 1..Len(ms) :
        i < j => /\ ~KeyLess(Key(ms[i]), Key(ms[j]))
                 /\ Key(ms[i]) = Key(ms[j]) => Pos(ms[i].minifig_id) < Pos(ms[j].minifig_id)

\* out keeps the order of the list it was produced from
InOrderOf(out, ms) ==
    \A i, j \in 1..Len(out) :
        i < j => PosIn(ms, out[i].minifig_id) < PosIn(ms, out[j].minifig_id)

\* C22: both phases process their candidates in descending key order with a
\* missing year counted as 0, candidates with equal keys in the enumeration
\* order of minifig_ids; the output keeps the processing order, and every
\* emitted record carries the year of its catalog entry, a missing one as
\* missing.
C22_StableTies ==
    /\ StablySorted(complete_matches, CompleteKey)
    /\ StablySorted(partial_matches, PartialKey)
    /\ InOrderOf(CompleteOut, complete_matches)
    /\ InOrderOf(PartialOut, partial_matches)
    /\ \A i \in 1..Len(final_results) :
          final_results[i].year_released =
              minifig_cache[final_results[i].minifig_id][1].year_released

\* two candidates tie in both lists, one without a year and one of year 0;
\* both are accepted, and the one without a year is emitted without it
C22_Witness ==
    /\ pc = "done"
    /\ Len(complete_matches) = 2
    /\ Len(partial_matches) = 2
    /\ CompleteKey(complete_matches[1]) = CompleteKey(complete_matches[2])
    /\ PartialKey(partial_matches[1]) = PartialKey(partial_matches[2])
    /\ Len(CompleteOut) = 2
    /\ CompleteOut[1].year_released = Some(0)
    /\ CompleteOut[2].year_released = None

C24_GreedyMaximal ==
    pc \in {"phase2", "done"} =>
        /\ \A i \in 1..Len(complete_matches) : FailsRecheck(complete_matches[i])
        /\ \A i \in 1..Len(partial_matches) :
              Len(LeftFor(partial_matches[i])) < partial_matches[i].total_parts

\* Phase 1 is over: of two can_build candidates one was accepted and one
\* refused, and the accepted one still finds some of its lines, not all, in
\* the stock that is left
C24_Witness ==
    /\ pc \in {"phase2", "done"}
    /\ Len(complete_matches) = 2
    /\ Len(CompleteOut) = 1
    /\ Len(LeftFor(CompleteOut[1])) > 0

\* the records the backend finder returned for a candidate (none or one)
BackendOf(id) ==
    IF backend_matches = None THEN <<>>
    ELSE SelectSeq(backend_matches[1], LAMBDA r : r.minifig_id = id)

BackendCanBuild ==
    {minifig_ids[n] : n \in {k \in 1..Len(minifig_ids) :
        BackendOf(minifig_ids[k]) # <<>> /\ BackendOf(minifig_ids[k])[1].can_build}}

CompleteIds == {CompleteOut[i].minifig_id : i \in 1..Len(CompleteOut)}

\* two can_build candidates of the backend list both need some PartRef
SharedPart ==
    \E a, b \in BackendCanBuild :
        /\ a # b
        /\ \E p \in Parts : /\ UnitsIn(BackendOf(a)[1].matched_details, p) > 0
                            /\ UnitsIn(BackendOf(b)[1].matched_details, p) > 0

\* C25: on the same inventory and catalog the backend finder has a record for
\* a candidate exactly if the first pass of the allocating finder has one,
\* with the same total_parts, matched_parts, missing_parts and can_build; the
\* candidates the allocating finder emits as complete builds are among the
\* can_build candidates of the backend, and are all of them when no two
\* can_build candidates need the same PartRef.
C25_BackendAgrees ==
    backend_matches # None =>
        /\ \A n \in 1..Len(minifig_ids) :
              LET first == check_minifig(inventory, minifig_cache, price_cache, minifig_ids[n])
                  back  == BackendOf(minifig_ids[n])
              IN  /\ Len(back) = (IF first = None THEN 0 ELSE 1)
                  /\ first # None =>
                        /\ back[1].total_parts = first[1].total_parts
                        /\ back[1].matched_parts = first[1].matched_parts
                        /\ back[1].missing_parts = first[1].missing_parts
                        /\ back[1].can_build = first[1].can_build
        /\ pc = "done" =>
              /\ CompleteIds \subseteq BackendCanBuild
              /\ ~SharedPart => CompleteIds = BackendCanBuild

\* both searches are over: the backend reports two can_build candidates that
\* need the same PartRef, and the allocating finder emits only one of them
C25_Witness ==
    /\ pc = "done"
    /\ backend_matches # None
    /\ Cardinality(BackendCanBuild) = 2
    /\ SharedPart
    /\ Cardinality(CompleteIds) = 1

\* what the instance of a call held for its id before the call
StoredFor(c) ==
    IF c.cache = "minifig" THEN apis[c.api][1].minifig_cache[c.minifig_id]
    ELSE apis[c.api][1].price_cache[c.minifig_id]

CachesUntouched ==
    /\ remote_calls' = remote_calls
    /\ apis' = apis
    /\ cache_files' = cache_files

\* C26: a call in cache-only mode sends nothing to the remote side, leaves
\* the in-memory caches and the cache files as they were and returns the
\* stored entry or None; in either mode a call for an id whose entry is in
\* the instance's cache returns that entry without fetching; and no step
\* replaces or removes an entry of an instance's in-memory cache.
C26_CacheReadDiscipline ==
    [][/\ last_call' # None =>
            LET c == last_call'[1]
            IN  /\ c.use_cache_only => CachesUntouched /\ c.result = StoredFor(c)
                /\ StoredFor(c) # None => CachesUntouched /\ c.result = StoredFor(c)
       /\ \A a \in Apis, id \in Ids :
            apis[a] # None =>
                /\ apis'[a] # None
                /\ apis[a][1].minifig_cache[id] # None =>
                      apis'[a][1].minifig_cache[id] = apis[a][1].minifig_cache[id]
                /\ apis[a][1].price_cache[id] # None =>
                      apis'[a][1].price_cache[id] = apis[a][1].price_cache[id]]_vars

\* the last call was made outside cache-only mode for a price the instance
\* had fetched itself earlier, and it returned that entry without a fetch
C26_Witness ==
    /\ last_call # None
    /\ last_call[1].cache = "price"
    /\ ~last_call[1].use_cache_only
    /\ last_call[1].fetch = "none"
    /\ last_call[1].result # None
    /\ last_call[1].result[1].updated >= 1
    /\ remote_calls >= 2

\* C27: a call whose remote fetch fails returns None and leaves the
\* in-memory caches and the cache files as they were, so that no entry is
\* recorded for the id and a later call fetches again.
C27_FailedFetchNotCached ==
    [][(last_call' # None /\ last_call'[1].fetch = "failed") =>
          /\ last_call'[1].result = None
          /\ apis' = apis
          /\ cache_files' = cache_files]_vars

\* no update-prices task is in the middle of its loop
TasksFinished ==
    \A a \in Apis :
        tasks[a] # None => tasks[a][1].next > Len(tasks[a][1].minifig_ids)

\* C28: when the instances that fetch prices have finished, the price cache
\* file holds every price entry that one of them fetched and saved (the
\* entries with a time of fetch, as opposed to those read from the file at
\* the start).
C28_NoLostUpdate ==
    TasksFinished =>
        \A a \in Apis, id \in Ids :
            (/\ apis[a] # None
             /\ apis[a][1].price_cache[id] # None
             /\ apis[a][1].price_cache[id][1].updated > 0)
                => cache_files.price_cache_file[id] = apis[a][1].price_cache[id]

\* the response of the step is one of POST /api/analyze
AnalyzeResponse == response' # None /\ response'[1].endpoint = "analyze"

UsesOf(role, key) ==
    Cardinality({i \in 1..Len(minifigures[1]) :
                    /\ minifigures[1][i][role] # None
                    /\ PartKey(minifigures[1][i][role][1]) = key})

\* the lots of the list that have the key
LotsOf(lots, key) == {i \in 1..Len(lots) : PartKey(lots[i]) = key}

\* the minifigures of the returned list built of the three parts
BuiltOf(head, torso, legs) ==
    {i \in 1..Len(minifigures[1]) :
        /\ minifigures[1][i].head = Some(head)
        /\ minifigures[1][i].torso = Some(torso)
        /\ minifigures[1][i].legs = Some(legs)}

AllComplete ==
    \A i \in 1..Len(minifigures[1]) :
        /\ minifigures[1][i].head # None
        /\ minifigures[1][i].torso # None
        /\ minifigures[1][i].legs # None

\* C30 as stated: in the list build_minifigures returns, no part is used as
\* head (as torso, as legs, as headgear) by more minifigures than the qty of
\* that part; every minifigure has a head, a torso and legs; and every
\* combination of head, torso and legs is built at most once.
C30_NoOverUse ==
    minifigures # None =>
        LET categorized == categorize_parts(parts)
        IN  /\ \A role \in {"head", "torso", "legs", "headgear"} :
                  \A i \in 1..Len(categorized[role]) :
                      UsesOf(role, PartKey(categorized[role][i])) <= categorized[role][i].qty
            /\ AllComplete
            /\ \A i, j \in 1..Len(minifigures[1]) :
                  (/\ minifigures[1][i].head = minifigures[1][j].head
                   /\ minifigures[1][i].torso = minifigures[1][j].torso
                   /\ minifigures[1][i].legs = minifigures[1][j].legs) => i = j

\* C30 amended: no part key is used in a role by more minifigures than the
\* largest qty among the lots of that key in the role (the qty of the part
\* when no key comes in two lots); every minifigure has a head, a torso and
\* legs; and a combination of head, torso and legs is built at most once for
\* each triple of lots it can be taken from (once when no key comes in two
\* lots).
C30_NoOverUseOfLots ==
    minifigures # None =>
        LET categorized == categorize_parts(parts)
        IN  /\ \A role \in {"head", "torso", "legs", "headgear"}, id \in PartIds :
                  \/ UsesOf(role, <<id, 0>>) = 0
                  \/ \E i \in LotsOf(categorized[role], <<id, 0>>) :
                        UsesOf(role, <<id, 0>>) <= categorized[role][i].qty
            /\ AllComplete
            /\ \A h \in HeadLots, t \in TorsoLots, l \in LegsLots :
                  Cardinality(BuiltOf(h, t, l))
                      <= Cardinality({i \in 1..Len(categorized["head"]) : categorized["head"][i] = h})
                           * Cardinality({i \in 1..Len(categorized["torso"]) : categorized["torso"][i] = t})
                           * Cardinality({i \in 1..Len(categorized["legs"]) : categorized["legs"][i] = l})

\* two lots of one head were given, the first smaller than the second, and
\* the second lot gave a second minifigure of that head; the headgear ran out
C30_Witness ==
    /\ minifigures # None
    /\ Len(minifigures[1]) >= 2
    /\ \E i, j \in 1..Len(parts) :
          /\ i < j
          /\ CategoryOf(parts[i]) = "head"
          /\ CategoryOf(parts[j]) = "head"
          /\ PartKey(parts[i]) = PartKey(parts[j])
          /\ parts[i].qty < parts[j].qty
          /\ UsesOf("head", PartKey(parts[i])) = parts[j].qty
    /\ \E i, j \in 1..Len(minifigures[1]) :
          /\ minifigures[1][i].headgear # None
          /\ minifigures[1][j].headgear = None

====
